---------------------------- MODULE Spec2Model ----------------------------
(***************************************************************************)
(* Developer reliability scoring: the batch build of the developers table *)
(* (src/data/init_db.py), the scoring engine (src/app/scoring.py) and the *)
(* read API (src/app/database.py, src/app/routers/developers.py).         *)
(*                                                                         *)
(* Numbers.  Python floats are modelled in fixed point: a raw sub-score   *)
(* or composite is an integer number of 1/SCALE units, a float input is a *)
(* rational [num, den], and a value rounded to one decimal is an integer  *)
(* number of tenths.  An Optional value is the empty sequence (None) or a *)
(* one-element sequence.  A SQL NULL in a text column is the value NULL.  *)
(***************************************************************************)
EXTENDS Integers, Sequences, FiniteSets, TLC

VARIABLES
    queue_db,   \* the source database's projects table, one record per row
    projects,   \* the output database's projects table (a set of rows)
    developers, \* the output database's developers table: name -> row
    rows,       \* main's fetched rows not yet scored: name -> row
    scored,     \* main's counter of scored developers
    pc,         \* where main is: idle, imported, aggregated, scoring, done
    today,      \* CURRENT_DATE, a day number
    previous,   \* the developers table the previous run wrote, if any
    runs,       \* completed runs of main
    inp,        \* the argument of the call under study: a ScoringInput,
                \* the arguments of a score_* function, or an API request
    result,     \* what was returned: None or <<dict>> for compute_score,
                \* the values of score_* calls, or the API's responses
    called      \* whether the call has returned

varsBatch == <<queue_db, projects, developers, rows, scored, pc, today,
               previous, runs>>
varsScore == <<inp, result, called>>
vars == <<varsBatch, varsScore>>

---------------------------------------------------------------------------
(* Fixed-point arithmetic *)


None == <<>>
Some(x) == <<x>>
Rat(n, d) == [num |-> n, den |-> d]

Min(a, b) == IF a <= b THEN a ELSE b

RECURSIVE Pow10(_)
Pow10(k) == IF k = 0 THEN 1 ELSE 10 * Pow10(k - 1)

SCALE == Pow10(5)

\* floor(r * 10^k / b) for 0 <= r < b, digit by digit (no intermediate
\* exceeds 10 * b).
RECURSIVE Frac(_, _, _)
Frac(r, b, k) ==
    IF k = 0 THEN 0
    ELSE ((r * 10) \div b) * Pow10(k - 1) + Frac((r * 10) % b, b, k - 1)

\* a / b as a fixed-point number: floor(a * SCALE / b), b > 0.
FixDivPos(a, b) == (a \div b) * SCALE + Frac(a % b, b, 5)

FixDiv(a, b) == IF b < 0 THEN FixDivPos(-a, -b) ELSE FixDivPos(a, b)

\* round(x, 1): the nearest tenth of a fixed-point number, ties to even.
Round1(x) ==
    LET unit == SCALE \div 10
        q == x \div unit
        r == x % unit
    IN  IF r * 2 > unit \/ (r * 2 = unit /\ q % 2 = 1) THEN q + 1 ELSE q

\* The remainder the long division of Frac leaves: (r * 10^k) mod b.
RECURSIVE FracRem(_, _, _)
FracRem(r, b, k) == IF k = 0 THEN r ELSE FracRem((r * 10) % b, b, k - 1)

\* round(n / d, k) for a ratio, exactly: the nearest multiple of 10^-k, ties
\* to even, as an integer number of 10^-k units; d > 0.
DivRound(n, d, k) ==
    LET q == (n \div d) * Pow10(k) + Frac(n % d, d, k)
        rem == FracRem(n % d, d, k)
    IN  IF rem * 2 > d \/ (rem * 2 = d /\ q % 2 = 1) THEN q + 1 ELSE q

\* math.log1p(n) in millionths, for the arguments the model uses.
log1p ==
    (0 :> 0) @@ (1 :> 693147) @@ (2 :> 1098612) @@ (3 :> 1386294)
    @@ (4 :> 1609438) @@ (5 :> 1791759) @@ (6 :> 1945910) @@ (7 :> 2079442)
    @@ (8 :> 2197225) @@ (9 :> 2302585) @@ (10 :> 2397895) @@ (11 :> 2484907)
    @@ (12 :> 2564949) @@ (50 :> 3931826) @@ (60 :> 4110874)
    @@ (200 :> 5303305) @@ (250 :> 5525453)

---------------------------------------------------------------------------
(* src/app/scoring.py *)

TIMELINE_EXCELLENT == 365
TIMELINE_POOR == 365 * 6
VOLUME_CAP == 200
REGIONS_MAX == 9
FUEL_TYPES_MAX == 8
PIPELINE_CAP == 50
DEPTH_MAX == 20
MIN_RESOLVED == 5

\* Faulty variant: the share of withdrawn projects instead of operational ones.
score_completion_rate_withdrawn(operational, withdrawn) ==
    LET resolved == operational + withdrawn
    IN  IF resolved = 0 THEN 0
        ELSE FixDiv(withdrawn * 100, resolved)

score_completion_rate(operational, withdrawn) ==
    LET resolved == operational + withdrawn
    IN  IF resolved = 0 THEN 0
        ELSE FixDiv(operational * 100, resolved)

\* Faulty variant: only a missing average is neutral, a non-positive one
\* falls into the excellent branch.
score_timeline_missing_only(avg_days) ==
    IF avg_days = None THEN 50 * SCALE
    ELSE LET a == avg_days[1]
         IN  IF a.num <= TIMELINE_EXCELLENT * a.den THEN 100 * SCALE
             ELSE IF a.num >= TIMELINE_POOR * a.den THEN 0
             ELSE 100 * SCALE
                  - FixDiv(100 * (a.num - TIMELINE_EXCELLENT * a.den),
                           (TIMELINE_POOR - TIMELINE_EXCELLENT) * a.den)

score_timeline(avg_days) ==
    IF avg_days = None \/ avg_days[1].num <= 0 THEN 50 * SCALE
    ELSE LET a == avg_days[1]
         IN  IF a.num <= TIMELINE_EXCELLENT * a.den THEN 100 * SCALE
             ELSE IF a.num >= TIMELINE_POOR * a.den THEN 0
             ELSE 100 * SCALE
                  - FixDiv(100 * (a.num - TIMELINE_EXCELLENT * a.den),
                           (TIMELINE_POOR - TIMELINE_EXCELLENT) * a.den)

score_volume(total) ==
    IF total <= 0 THEN 0
    ELSE Min(100 * SCALE, FixDiv(log1p[total] * 100, log1p[VOLUME_CAP]))

score_breadth(num_regions) ==
    Min(100 * SCALE, FixDiv(num_regions * 100, REGIONS_MAX))

score_diversity(num_types) ==
    Min(100 * SCALE, FixDiv(num_types * 100, FUEL_TYPES_MAX))

score_pipeline(active) ==
    IF active <= 0 THEN 0
    ELSE Min(100 * SCALE, FixDiv(log1p[active] * 100, log1p[PIPELINE_CAP]))

score_depth(years) ==
    IF years.num <= 0 THEN 0
    ELSE Min(100 * SCALE, FixDiv(years.num * 100, years.den * DEPTH_MAX))

\* Faulty variant: completion weighted 0.35, the weights no longer summing to 1.
WeightsCompletionHeavy ==
    [completion |-> 35, timeline |-> 20, volume |-> 15, breadth |-> 10,
     diversity |-> 10, pipeline |-> 10, depth |-> 5]

\* The weights, in hundredths.
WEIGHTS ==
    [completion |-> 30, timeline |-> 20, volume |-> 15, breadth |-> 10,
     diversity |-> 10, pipeline |-> 10, depth |-> 5]

\* Faulty variant: the gate one too low.
UnqualifiedBelowFour(resolved) == resolved < MIN_RESOLVED - 1

Unqualified(resolved) == resolved < MIN_RESOLVED

compute_score(i) ==
    LET resolved == i.operational + i.withdrawn
        completion == score_completion_rate(i.operational, i.withdrawn)
        timeline == score_timeline(i.avg_timeline_days)
        volume == score_volume(i.total_projects)
        breadth == score_breadth(i.num_regions)
        diversity == score_diversity(i.num_fuel_types)
        pipeline == score_pipeline(i.active_projects)
        depth == score_depth(i.years_since_first)
        composite ==
            (WEIGHTS.completion * completion
             + WEIGHTS.timeline * timeline
             + WEIGHTS.volume * volume
             + WEIGHTS.breadth * breadth
             + WEIGHTS.diversity * diversity
             + WEIGHTS.pipeline * pipeline
             + WEIGHTS.depth * depth) \div 100
    IN  IF Unqualified(resolved) THEN None
        ELSE Some(
            [score |-> Round1(composite),
             completion_rate |-> DivRound(i.operational, resolved, 4),
             completion_rate_score |-> Round1(completion),
             avg_timeline_days |->
                 IF i.avg_timeline_days = None
                    \/ i.avg_timeline_days[1].num = 0
                 THEN None
                 ELSE Some(DivRound(i.avg_timeline_days[1].num,
                                    i.avg_timeline_days[1].den, 1)),
             timeline_score |-> Round1(timeline),
             project_volume |-> i.total_projects,
             volume_score |-> Round1(volume),
             regional_breadth |-> i.num_regions,
             breadth_score |-> Round1(breadth),
             tech_diversity |-> i.num_fuel_types,
             diversity_score |-> Round1(diversity),
             active_pipeline |-> i.active_projects,
             pipeline_score |-> Round1(pipeline),
             track_record_years |->
                 DivRound(i.years_since_first.num, i.years_since_first.den, 1),
             depth_score |-> Round1(depth)])

---------------------------------------------------------------------------
(* src/data/init_db.py: the tables *)

\* SQL NULL in a text column (no input text equals it).
NULL == "<NULL>"

Project(dev, status, region, type, queue_date, cod) ==
    [developer_canonical |-> dev, status_std |-> status, region |-> region,
     type_std |-> type, queue_date_std |-> queue_date, cod_std |-> cod]

WithId(r, id) ==
    [queue_id |-> id, developer_canonical |-> r.developer_canonical,
     status_std |-> r.status_std, region |-> r.region,
     type_std |-> r.type_std, queue_date_std |-> r.queue_date_std,
     cod_std |-> r.cod_std]

\* The date texts of the model in VARCHAR (byte) order, which MIN and MAX
\* over queue_date_std use; "" and "TBD" are texts that are no date.
DateTexts ==
    <<"", "2012-03-01", "2013-03-01", "2013-10-22", "2016-01-01", "TBD">>

StrRank(s) == CHOOSE k \in 1 .. Len(DateTexts) : DateTexts[k] = s

\* The day number (days since 2000-01-01) of the texts that are dates.
DateValue ==
    ("2012-03-01" :> 4443) @@ ("2013-03-01" :> 4808)
    @@ ("2013-10-22" :> 5043) @@ ("2016-01-01" :> 5844)

\* TRY_CAST(s AS DATE): NULL for NULL and for a text that is no date.
TryCastDate(s) ==
    IF s \in DOMAIN DateValue THEN Some(DateValue[s]) ELSE None

MinText(S) == CHOOSE s \in S : \A t \in S : StrRank(s) <= StrRank(t)
MaxText(S) == CHOOSE s \in S : \A t \in S : StrRank(s) >= StrRank(t)

\* MIN / MAX of a text column: NULLs are skipped, NULL when nothing is left.
SqlMin(S) == IF S \ {NULL} = {} THEN NULL ELSE MinText(S \ {NULL})
SqlMax(S) == IF S \ {NULL} = {} THEN NULL ELSE MaxText(S \ {NULL})

\* STRING_AGG(DISTINCT x, ', ') over the values S: the joined text is kept
\* as the set of its items; NULLs are skipped, NULL when nothing is left.
StringAgg(S) == IF S \ {NULL} = {} THEN None ELSE Some(S \ {NULL})

\* COUNT(DISTINCT x): NULLs are skipped.
CountDistinct(S) == Cardinality(S \ {NULL})

\* ROUND(n / d, 4) of SQL: the nearest 1/10000, ties away from zero; n >= 0,
\* d > 0.
SqlRound4(n, d) ==
    LET q == (n \div d) * Pow10(4) + Frac(n % d, d, 4)
        rem == FracRem(n % d, d, 4)
    IN  IF rem * 2 >= d THEN q + 1 ELSE q

\* Faulty variant: the empty identity is let through.
HasDeveloperNotNull(p) == p.developer_canonical # NULL

\* WHERE developer_canonical IS NOT NULL AND developer_canonical != ''
HasDeveloper(p) ==
    p.developer_canonical # NULL /\ p.developer_canonical # ""

ImportedRows(db) ==
    {p \in {db[k] : k \in 1 .. Len(db)} : HasDeveloper(p)}

\* Faulty variant: the status is matched without regard to case.
CountStatusAnyCase(ps, status) ==
    Cardinality({p \in ps :
        \/ p.status_std = status
        \/ status = "Operational" /\ p.status_std = "operational"})

\* COUNT(*) FILTER (WHERE status_std = status)
CountStatus(ps, status) == Cardinality({p \in ps : p.status_std = status})

\* Faulty variant: the COD is not required to be later than the queue date.
TimelineSampleAnyOrder(p) ==
    /\ p.status_std = "Operational"
    /\ TryCastDate(p.queue_date_std) # None
    /\ TryCastDate(p.cod_std) # None

\* The FILTER of avg_timeline_days.
TimelineSample(p) ==
    /\ p.status_std = "Operational"
    /\ TryCastDate(p.queue_date_std) # None
    /\ TryCastDate(p.cod_std) # None
    /\ TryCastDate(p.cod_std)[1] > TryCastDate(p.queue_date_std)[1]

\* DATEDIFF('day', queue_date_std, cod_std)
TimelineDays(p) ==
    TryCastDate(p.cod_std)[1] - TryCastDate(p.queue_date_std)[1]

RECURSIVE SumTimelineDays(_)
SumTimelineDays(ps) ==
    IF ps = {} THEN 0
    ELSE LET p == CHOOSE x \in ps : TRUE
         IN  TimelineDays(p) + SumTimelineDays(ps \ {p})

\* AVG(...) FILTER (...): NULL over no rows, else the mean as a ratio.
AvgTimelineDays(ps) ==
    LET samples == {p \in ps : TimelineSample(p)}
    IN  IF samples = {} THEN None
        ELSE Some(Rat(SumTimelineDays(samples), Cardinality(samples)))

\* DATEDIFF('day', TRY_CAST(MIN(queue_date_std) AS DATE), CURRENT_DATE)
\* / 365.25: NULL when the least text is NULL or no date.
YearsSinceFirst(ps, day) ==
    LET first == TryCastDate(SqlMin({p.queue_date_std : p \in ps}))
    IN  IF first = None THEN None
        ELSE Some(Rat((day - first[1]) * 100, 36525))

\* One row of the developers table as CREATE TABLE developers leaves it.
BaseRow(ps, name, day) ==
    LET operational == CountStatus(ps, "Operational")
        withdrawn == CountStatus(ps, "Withdrawn")
    IN  [name |-> name,
         total_projects |-> Cardinality(ps),
         operational |-> operational,
         withdrawn |-> withdrawn,
         active |-> CountStatus(ps, "Active"),
         under_construction |-> CountStatus(ps, "Under Construction"),
         suspended |-> CountStatus(ps, "Suspended"),
         regions |-> StringAgg({p.region : p \in ps}),
         num_regions |-> CountDistinct({p.region : p \in ps}),
         fuel_types |-> StringAgg({p.type_std : p \in ps}),
         num_fuel_types |-> CountDistinct({p.type_std : p \in ps}),
         first_project_date |-> SqlMin({p.queue_date_std : p \in ps}),
         latest_project_date |-> SqlMax({p.queue_date_std : p \in ps}),
         avg_timeline_days |-> AvgTimelineDays(ps),
         years_since_first |-> YearsSinceFirst(ps, day),
         completion_rate |->
             IF operational + withdrawn > 0
             THEN Some(SqlRound4(operational, operational + withdrawn))
             ELSE None,
         score |-> None,
         completion_rate_score |-> None,
         timeline_score |-> None,
         volume_score |-> None,
         breadth_score |-> None,
         diversity_score |-> None,
         pipeline_score |-> None,
         depth_score |-> None]

\* GROUP BY developer_canonical
GroupOf(ps, name) == {p \in ps : p.developer_canonical = name}

DevelopersTable(ps, day) ==
    [name \in {p.developer_canonical : p \in ps} |->
        BaseRow(GroupOf(ps, name), name, day)]

EmptyTable == [name \in {} |-> None]

\* The ScoringInput main builds from a fetched row ("x or 0").
ScoringInputOf(row) ==
    [operational |-> row.operational,
     withdrawn |-> row.withdrawn,
     total_projects |-> row.total_projects,
     avg_timeline_days |-> row.avg_timeline_days,
     num_regions |-> row.num_regions,
     num_fuel_types |-> row.num_fuel_types,
     active_projects |-> row.active,
     years_since_first |->
         IF row.years_since_first = None
            \/ row.years_since_first[1].num = 0
         THEN Rat(0, 1)
         ELSE row.years_since_first[1]]

\* Faulty variant: the UPDATE has no WHERE.
UpdateMatchesAny(row_name, name) == TRUE

\* WHERE name = ? of the UPDATE.
UpdateMatches(row_name, name) == row_name = name

\* Faulty variant: depth_score is left out of the SET list.
UpdateScoresNoDepth(table, name, res) ==
    [n \in DOMAIN table |->
        IF UpdateMatches(n, name)
        THEN [table[n] EXCEPT
                 !.score = Some(res.score),
                 !.completion_rate_score = Some(res.completion_rate_score),
                 !.timeline_score = Some(res.timeline_score),
                 !.volume_score = Some(res.volume_score),
                 !.breadth_score = Some(res.breadth_score),
                 !.diversity_score = Some(res.diversity_score),
                 !.pipeline_score = Some(res.pipeline_score)]
        ELSE table[n]]

\* UPDATE developers SET score = ?, ... WHERE name = ?
UpdateScores(table, name, res) ==
    [n \in DOMAIN table |->
        IF UpdateMatches(n, name)
        THEN [table[n] EXCEPT
                 !.score = Some(res.score),
                 !.completion_rate_score = Some(res.completion_rate_score),
                 !.timeline_score = Some(res.timeline_score),
                 !.volume_score = Some(res.volume_score),
                 !.breadth_score = Some(res.breadth_score),
                 !.diversity_score = Some(res.diversity_score),
                 !.pipeline_score = Some(res.pipeline_score),
                 !.depth_score = Some(res.depth_score)]
        ELSE table[n]]

---------------------------------------------------------------------------
(* src/app/routers/developers.py *)

\* [x.strip() for x in (text or "").split(",") if x.strip()]
SplitList(text) == IF text = None THEN {} ELSE text[1] \ {""}

developer_to_detail(d) ==
    [name |-> d.name,
     score |-> d.score,
     score_breakdown |->
         IF d.score # None
         THEN Some([completion_rate |-> d.completion_rate,
                    completion_rate_score |-> d.completion_rate_score,
                    avg_timeline_days |-> d.avg_timeline_days,
                    timeline_score |-> d.timeline_score,
                    project_volume |-> d.total_projects,
                    volume_score |-> d.volume_score,
                    regional_breadth |-> d.num_regions,
                    breadth_score |-> d.breadth_score,
                    tech_diversity |-> d.num_fuel_types,
                    diversity_score |-> d.diversity_score,
                    active_pipeline |-> d.active,
                    pipeline_score |-> d.pipeline_score,
                    track_record_years |-> d.years_since_first,
                    depth_score |-> d.depth_score])
         ELSE None,
     total_projects |-> d.total_projects,
     operational |-> d.operational,
     withdrawn |-> d.withdrawn,
     active |-> d.active,
     under_construction |-> d.under_construction,
     suspended |-> d.suspended,
     regions |-> SplitList(d.regions),
     fuel_types |-> SplitList(d.fuel_types),
     first_project_date |-> d.first_project_date,
     latest_project_date |-> d.latest_project_date]

---------------------------------------------------------------------------
(* src/data/init_db.py: main, step by step *)

MaxProjects == 6
MaxRuns == 2
MaxDaysLater == 1

\* CURRENT_DATE of the first run: 2025-01-01.
FirstDay == 9132

NoInput ==
    [operational |-> 0, withdrawn |-> 0, total_projects |-> 0,
     avg_timeline_days |-> None, num_regions |-> 0, num_fuel_types |-> 0,
     active_projects |-> 0, years_since_first |-> Rat(0, 1)]

IdleBatch ==
    /\ queue_db = <<>>
    /\ projects = {}
    /\ developers = EmptyTable
    /\ rows = EmptyTable
    /\ scored = 0
    /\ pc = "idle"
    /\ today = FirstDay
    /\ previous = None
    /\ runs = 0

Init ==
    /\ IdleBatch
    /\ inp = NoInput
    /\ result = None
    /\ called = FALSE

SameProject(r, p) ==
    \A f \in DOMAIN r : r[f] = p[f]

\* A row is added to the source table before the first run.  The table is
\* a bag of rows, so rows are added in the order of the record list U: every
\* bag of at most max records of U is reached, once.
InsertProject(U, max, k) ==
    /\ pc = "idle"
    /\ runs = 0
    /\ Len(queue_db) < max
    /\ IF queue_db = <<>> THEN TRUE
       ELSE \E j \in 1 .. k : SameProject(U[j], queue_db[Len(queue_db)])
    /\ queue_db' = Append(queue_db, WithId(U[k], Len(queue_db) + 1))
    /\ UNCHANGED <<projects, developers, rows, scored, pc, today, previous,
                   runs, varsScore>>

\* Lines 29-48: the output database is removed and projects is imported.
ImportProjects ==
    /\ pc = "idle"
    /\ projects' = ImportedRows(queue_db)
    /\ developers' = EmptyTable
    /\ rows' = EmptyTable
    /\ scored' = 0
    /\ pc' = "imported"
    /\ UNCHANGED <<queue_db, today, previous, runs, varsScore>>

\* Lines 62-118: CREATE TABLE developers.
ComputeMetrics ==
    /\ pc = "imported"
    /\ developers' = DevelopersTable(projects, today)
    /\ pc' = "aggregated"
    /\ UNCHANGED <<queue_db, projects, rows, scored, today, previous, runs,
                   varsScore>>

\* Lines 123-129: the rows to score are fetched.
FetchRows ==
    /\ pc = "aggregated"
    /\ rows' = developers
    /\ scored' = 0
    /\ pc' = "scoring"
    /\ UNCHANGED <<queue_db, projects, developers, today, previous, runs,
                   varsScore>>

\* Lines 130-157: one turn of the loop.  The SELECT has no ORDER BY, so the
\* next row is any row not yet scored.
ScoreRow(name) ==
    /\ pc = "scoring"
    /\ name \in DOMAIN rows
    /\ LET i == ScoringInputOf(rows[name])
           res == compute_score(i)
       IN  /\ inp' = i
           /\ result' = res
           /\ called' = TRUE
           /\ IF res # None
              THEN /\ developers' = UpdateScores(developers, name, res[1])
                   /\ scored' = scored + 1
              ELSE UNCHANGED <<developers, scored>>
    /\ rows' = [n \in DOMAIN rows \ {name} |-> rows[n]]
    /\ UNCHANGED <<queue_db, projects, pc, today, previous, runs>>

\* Lines 159-167: the loop is over; indexes, close.
Finish ==
    /\ pc = "scoring"
    /\ DOMAIN rows = {}
    /\ pc' = "done"
    /\ runs' = runs + 1
    /\ UNCHANGED <<queue_db, projects, developers, rows, scored, today,
                   previous, varsScore>>

\* main is started again on the same source; what the last run wrote is
\* remembered for comparison.
RunAgain ==
    /\ pc = "done"
    /\ runs < MaxRuns
    /\ previous' = Some(developers)
    /\ pc' = "idle"
    /\ UNCHANGED <<queue_db, projects, developers, rows, scored, today,
                   runs, varsScore>>

\* A day passes between two runs.
Tick ==
    /\ pc = "done"
    /\ runs < MaxRuns
    /\ today < FirstDay + MaxDaysLater
    /\ today' = today + 1
    /\ UNCHANGED <<queue_db, projects, developers, rows, scored, pc,
                   previous, runs, varsScore>>

\* The records of the identity and status cases.
StatusRecords ==
    <<Project("A", "Operational", "PJM", "Solar", "2012-03-01", "2013-10-22"),
      Project("A", "Withdrawn", "PJM", "Solar", "2012-03-01", NULL),
      Project("A", "Active", "PJM", "Solar", "2012-03-01", NULL),
      Project("A", "Under Construction", "PJM", "Solar", "2012-03-01", NULL),
      Project("A", "Suspended", "PJM", "Solar", "2012-03-01", NULL),
      Project("A", "operational", "PJM", "Solar", "2012-03-01", NULL),
      Project("A", NULL, "PJM", "Solar", "2012-03-01", NULL),
      Project("B", "Operational", "PJM", "Solar", "2012-03-01", "2013-10-22"),
      Project("B", "Withdrawn", "PJM", "Solar", "2012-03-01", NULL),
      Project(NULL, "Operational", "PJM", "Solar", "2012-03-01", "2013-10-22"),
      Project("", "Operational", "PJM", "Solar", "2012-03-01", "2013-10-22")>>

Next ==
    \/ \E k \in 1 .. Len(StatusRecords) :
            InsertProject(StatusRecords, MaxProjects, k)
    \/ ImportProjects
    \/ ComputeMetrics
    \/ FetchRows
    \/ \E name \in DOMAIN rows : ScoreRow(name)
    \/ Finish

Spec == Init /\ [][Next]_vars

\* Three developers with enough records for two of them to qualify.
MaxOrderProjects == 11

OrderRecords ==
    <<Project("A", "Operational", "PJM", "Solar", "2012-03-01", "2013-10-22"),
      Project("A", "Withdrawn", "CAISO", "Wind", "2013-03-01", NULL),
      Project("B", "Operational", "PJM", "Solar", "2012-03-01", "2013-03-01"),
      Project("B", "Active", "PJM", "Solar", "2016-01-01", NULL),
      Project("C", "Operational", "CAISO", "Wind", "2013-03-01", "2016-01-01")>>

NextOrder ==
    \/ \E k \in 1 .. Len(OrderRecords) :
            InsertProject(OrderRecords, MaxOrderProjects, k)
    \/ ImportProjects
    \/ ComputeMetrics
    \/ FetchRows
    \/ \E name \in DOMAIN rows : ScoreRow(name)
    \/ Finish

SpecOrder == Init /\ [][NextOrder]_vars

\* The records of the fuel-type and region cases.
FuelRecords ==
    <<Project("A", "Operational", "PJM", "Solar", "2012-03-01", "2013-10-22"),
      Project("A", "Operational", "PJM", "Wind", "2012-03-01", "2013-10-22"),
      Project("A", "Operational", "PJM", "", "2012-03-01", "2013-10-22"),
      Project("A", "Operational", "PJM", NULL, "2012-03-01", "2013-10-22"),
      Project("A", "Withdrawn", "CAISO", "Solar", "2012-03-01", NULL),
      Project("A", "Withdrawn", "CAISO", "", "2012-03-01", NULL),
      Project("A", "Withdrawn", NULL, NULL, "2012-03-01", NULL),
      Project("B", "Active", "CAISO", "Wind", "2012-03-01", NULL)>>

NextFuel ==
    \/ \E k \in 1 .. Len(FuelRecords) :
            InsertProject(FuelRecords, MaxProjects, k)
    \/ ImportProjects
    \/ ComputeMetrics
    \/ FetchRows
    \/ \E name \in DOMAIN rows : ScoreRow(name)
    \/ Finish

SpecFuel == Init /\ [][NextFuel]_vars

\* The records of the date cases.
DateRecords ==
    <<Project("A", "Operational", "PJM", "Solar", "2012-03-01", "2013-03-01"),
      Project("A", "Operational", "PJM", "Solar", "2012-03-01", "2013-10-22"),
      Project("A", "Operational", "PJM", "Solar", "2013-03-01", "2013-03-01"),
      Project("A", "Operational", "PJM", "Solar", "2013-10-22", "2012-03-01"),
      Project("A", "Operational", "PJM", "Solar", "2013-03-01", "TBD"),
      Project("A", "Operational", "PJM", "Solar", "2016-01-01", NULL),
      Project("A", "Operational", "PJM", "Solar", "", "2016-01-01"),
      Project("A", "Operational", "PJM", "Solar", NULL, "2016-01-01"),
      Project("A", "Active", "PJM", "Solar", "2012-03-01", "2016-01-01"),
      Project("A", "Withdrawn", "PJM", "Solar", "TBD", NULL),
      Project("B", "Operational", "CAISO", "Wind", "2012-03-01", "2013-10-22")>>

NextDates ==
    \/ \E k \in 1 .. Len(DateRecords) :
            InsertProject(DateRecords, MaxProjects, k)
    \/ ImportProjects
    \/ ComputeMetrics
    \/ FetchRows
    \/ \E name \in DOMAIN rows : ScoreRow(name)
    \/ Finish

SpecDates == Init /\ [][NextDates]_vars

\* The same records, main run again after a day or on the same day.
NextRerun ==
    \/ \E k \in 1 .. Len(DateRecords) :
            InsertProject(DateRecords, MaxProjects, k)
    \/ ImportProjects
    \/ ComputeMetrics
    \/ FetchRows
    \/ \E name \in DOMAIN rows : ScoreRow(name)
    \/ Finish
    \/ RunAgain
    \/ Tick

SpecRerun == Init /\ [][NextRerun]_vars

---------------------------------------------------------------------------
(* The scoring engine called on its own: every ScoringInput of a bounded   *)
(* grid, zero and negative fields included.                                *)

MaxCount == 6

CountValues == -1 .. MaxCount
TotalValues == {-1, 0, 8, 250}
AvgDaysValues ==
    {None, Some(Rat(-5, 1)), Some(Rat(0, 1)), Some(Rat(365, 1)),
     Some(Rat(600, 1)), Some(Rat(2190, 1))}
RegionCountValues == {-1, 3, 18}
FuelCountValues == {0, 2}
ActiveValues == {0, 2, 60}
YearsValues == {Rat(-1, 1), Rat(2, 1), Rat(25, 1)}

ScoringInputs ==
    [operational : CountValues, withdrawn : CountValues,
     total_projects : TotalValues, avg_timeline_days : AvgDaysValues,
     num_regions : RegionCountValues, num_fuel_types : FuelCountValues,
     active_projects : ActiveValues, years_since_first : YearsValues]

InitScore ==
    /\ IdleBatch
    /\ inp \in ScoringInputs
    /\ result = None
    /\ called = FALSE

CallComputeScore ==
    /\ ~called
    /\ result' = compute_score(inp)
    /\ called' = TRUE
    /\ UNCHANGED <<inp, varsBatch>>

NextScore == CallComputeScore

SpecScore == InitScore /\ [][NextScore]_vars

---------------------------------------------------------------------------
(* Claims about compute_score (SpecScore) *)

SubScores(r) ==
    <<r.completion_rate_score, r.timeline_score, r.volume_score,
      r.breadth_score, r.diversity_score, r.pipeline_score, r.depth_score>>

\* C1: compute_score returns None for every input with
\* operational + withdrawn < 5, whatever the other fields are.
C1_UnqualifiedBelowFive ==
    (called /\ inp.operational + inp.withdrawn < 5) => result = None

\* C1 witness: a call with four resolved outcomes and large other fields
\* returned None.
C1_Witness ==
    /\ called
    /\ inp.operational + inp.withdrawn = 4
    /\ inp.total_projects = 250
    /\ inp.active_projects = 60
    /\ inp.avg_timeline_days = Some(Rat(365, 1))
    /\ result = None

\* C3 (as claimed): for every input passing the gate, negative fields
\* included, the composite and the seven sub-scores lie in [0, 100]
\* (0 .. 1000 tenths).
C3_ScoresInRange ==
    (called /\ result # None) =>
        /\ result[1].score \in 0 .. 1000
        /\ \A k \in 1 .. 7 : SubScores(result[1])[k] \in 0 .. 1000

\* The weighted sum of the seven reported sub-scores with the weights of the
\* claim, in thousandths of a point.
C4_WeightedSum(r) ==
    30 * r.completion_rate_score + 20 * r.timeline_score
    + 15 * r.volume_score + 10 * r.breadth_score + 10 * r.diversity_score
    + 10 * r.pipeline_score + 5 * r.depth_score

C4_Gap(r) ==
    IF 100 * r.score >= C4_WeightedSum(r)
    THEN 100 * r.score - C4_WeightedSum(r)
    ELSE C4_WeightedSum(r) - 100 * r.score

\* An input as the aggregation can produce it: counts that are not negative
\* and add up to no more than the total, a tenure that is not negative.
C4_Consistent(i) ==
    /\ i.operational >= 0 /\ i.withdrawn >= 0 /\ i.active_projects >= 0
    /\ i.total_projects >= i.operational + i.withdrawn + i.active_projects
    /\ i.num_regions >= 0 /\ i.num_fuel_types >= 0
    /\ i.years_since_first.num >= 0
    /\ (i.avg_timeline_days # None => i.avg_timeline_days[1].num > 0)

\* C4 (as claimed, and already on the inputs the aggregation can produce):
\* the reported composite is within 0.05 of the weighted sum of the seven
\* reported one-decimal sub-scores.
C4_WithinHalfTenth ==
    (called /\ result # None /\ C4_Consistent(inp)) =>
        C4_Gap(result[1]) <= 50

\* C4 (amended): the reported composite is within 0.1 of the weighted sum
\* of the seven reported one-decimal sub-scores.
C4_WithinOneTenth ==
    (called /\ result # None) => C4_Gap(result[1]) <= 100

\* C4 witness: a qualified input the aggregation can produce whose composite is
\* more than 0.05 and at most 0.1 from the weighted sum.
C4_Witness ==
    /\ called
    /\ result # None
    /\ C4_Consistent(inp)
    /\ C4_Gap(result[1]) > 50
    /\ C4_Gap(result[1]) <= 100

---------------------------------------------------------------------------
(* Claims about the batch run *)

Built == pc \in {"aggregated", "scoring", "done"}

SourceIndexes == 1 .. Len(queue_db)

\* The source rows attributed to the identity n.
RecordsOf(n) == {k \in SourceIndexes : queue_db[k].developer_canonical = n}

SevenColumns(d) ==
    <<d.completion_rate_score, d.timeline_score, d.volume_score,
      d.breadth_score, d.diversity_score, d.pipeline_score, d.depth_score>>

C7_Identities ==
    {queue_db[k].developer_canonical : k \in SourceIndexes} \ {NULL, ""}

RECURSIVE C7_SumTotals(_)
C7_SumTotals(names) ==
    IF names = {} THEN 0
    ELSE LET n == CHOOSE x \in names : TRUE
         IN  developers[n].total_projects + C7_SumTotals(names \ {n})

C7_OneRowPerIdentity ==
    Built =>
        /\ DOMAIN developers = C7_Identities
        /\ \A n \in DOMAIN developers :
            /\ developers[n].name = n
            /\ developers[n].total_projects = Cardinality(RecordsOf(n))
        /\ \A k \in SourceIndexes :
            Cardinality({n \in DOMAIN developers :
                developers[n].name = queue_db[k].developer_canonical})
            = IF queue_db[k].developer_canonical \in {NULL, ""} THEN 0 ELSE 1
        /\ C7_SumTotals(DOMAIN developers)
           = Cardinality({k \in SourceIndexes :
                 queue_db[k].developer_canonical \notin {NULL, ""}})

\* C7 witness: a finished run over a source with a NULL identity, an empty
\* identity and two named developers.
C7_Witness ==
    /\ pc = "done"
    /\ RecordsOf(NULL) # {}
    /\ RecordsOf("") # {}
    /\ DOMAIN developers = {"A", "B"}

\* C8: each of the five status counts is the number of the developer's
\* projects whose status is exactly that label; any other or absent status
\* counts toward total_projects only, so the five counts are non-negative
\* and sum to at most total_projects.
C8_Labels ==
    {"Operational", "Withdrawn", "Active", "Under Construction", "Suspended"}

C8_Count(n, label) ==
    Cardinality({k \in RecordsOf(n) : queue_db[k].status_std = label})

C8_FiveSum(d) ==
    d.operational + d.withdrawn + d.active + d.under_construction
    + d.suspended

C8_StatusCounts ==
    Built =>
        \A n \in DOMAIN developers :
            LET d == developers[n]
            IN  /\ d.operational = C8_Count(n, "Operational")
                /\ d.withdrawn = C8_Count(n, "Withdrawn")
                /\ d.active = C8_Count(n, "Active")
                /\ d.under_construction = C8_Count(n, "Under Construction")
                /\ d.suspended = C8_Count(n, "Suspended")
                /\ d.total_projects - C8_FiveSum(d)
                   = Cardinality({k \in RecordsOf(n) :
                         queue_db[k].status_std \notin C8_Labels})
                /\ C8_FiveSum(d) <= d.total_projects
                /\ d.operational >= 0 /\ d.withdrawn >= 0 /\ d.active >= 0
                /\ d.under_construction >= 0 /\ d.suspended >= 0

\* C8 witness: a row with an Operational project, a project whose status is
\* 'operational' in lower case and one with no status; the five counts sum
\* to less than total_projects.
C8_Witness ==
    /\ Built
    /\ "A" \in DOMAIN developers
    /\ developers["A"].operational >= 1
    /\ C8_Count("A", "operational") >= 1
    /\ C8_Count("A", NULL) >= 1
    /\ C8_FiveSum(developers["A"]) < developers["A"].total_projects

\* The row a fetched row becomes once its own turn of the loop is over.
C6_ScoredRow(row) ==
    LET res == compute_score(ScoringInputOf(row))
    IN  IF res = None THEN row
        ELSE [row EXCEPT
                 !.score = Some(res[1].score),
                 !.completion_rate_score = Some(res[1].completion_rate_score),
                 !.timeline_score = Some(res[1].timeline_score),
                 !.volume_score = Some(res[1].volume_score),
                 !.breadth_score = Some(res[1].breadth_score),
                 !.diversity_score = Some(res[1].diversity_score),
                 !.pipeline_score = Some(res[1].pipeline_score),
                 !.depth_score = Some(res[1].depth_score)]

\* C6: in whatever order the rows are scored, and at every point of the
\* pass, a row already scored holds the result of scoring its own metrics
\* and a row still to be scored is untouched; so the finished table does
\* not depend on the order or on how the rows are split up.
C6_OrderIndependent ==
    pc \in {"scoring", "done"} =>
        LET base == DevelopersTable(projects, today)
        IN  /\ DOMAIN developers = DOMAIN base
            /\ \A n \in DOMAIN developers :
                developers[n] =
                    IF n \in DOMAIN rows THEN base[n]
                    ELSE C6_ScoredRow(base[n])

\* C6 witness: B, which qualifies, and C, which does not, were scored before
\* A, which qualifies and is still to be scored.
C6_Witness ==
    /\ pc = "scoring"
    /\ DOMAIN developers = {"A", "B", "C"}
    /\ DOMAIN rows = {"A"}
    /\ developers["B"].score # None
    /\ developers["C"].score = None
    /\ developers["A"].operational + developers["A"].withdrawn >= 5

\* C9 (as claimed): a project with an absent or empty fuel type adds nothing
\* to the fuel-type set or to num_fuel_types and still counts toward
\* total_projects; num_fuel_types is the size of the fuel-type set and
\* num_regions the size of the region set.
C9_FuelTypes(n) ==
    {queue_db[k].type_std : k \in RecordsOf(n)} \ {NULL, ""}

C9_FuelAndRegionCounts ==
    Built =>
        \A n \in DOMAIN developers :
            LET d == developers[n]
                detail == developer_to_detail(d)
            IN  /\ detail.fuel_types = C9_FuelTypes(n)
                /\ d.num_fuel_types = Cardinality(C9_FuelTypes(n))
                /\ d.num_fuel_types = Cardinality(detail.fuel_types)
                /\ d.num_regions = Cardinality(detail.regions)
                /\ d.total_projects = Cardinality(RecordsOf(n))

\* C10: avg_timeline_days is the mean of COD - queue date in days over the
\* developer's Operational projects whose two dates parse and whose COD is
\* strictly later; with no such project it is null, the developer still has
\* a row, and a qualified developer gets timeline_score 50.0.
C10_Samples(n) ==
    {k \in RecordsOf(n) :
        /\ queue_db[k].status_std = "Operational"
        /\ queue_db[k].queue_date_std \in DOMAIN DateValue
        /\ queue_db[k].cod_std \in DOMAIN DateValue
        /\ DateValue[queue_db[k].cod_std]
           > DateValue[queue_db[k].queue_date_std]}

RECURSIVE C10_SumDays(_)
C10_SumDays(K) ==
    IF K = {} THEN 0
    ELSE LET k == CHOOSE x \in K : TRUE
         IN  DateValue[queue_db[k].cod_std]
             - DateValue[queue_db[k].queue_date_std]
             + C10_SumDays(K \ {k})

C10_AvgTimeline ==
    Built =>
        /\ \A k \in SourceIndexes :
            queue_db[k].developer_canonical \notin {NULL, ""} =>
                queue_db[k].developer_canonical \in DOMAIN developers
        /\ \A n \in DOMAIN developers :
            LET d == developers[n]
                K == C10_Samples(n)
                a == d.avg_timeline_days
            IN  /\ K = {} => a = None
                /\ K # {} =>
                    /\ a # None
                    /\ a[1].num * Cardinality(K)
                       = C10_SumDays(K) * a[1].den
                /\ (pc = "done" /\ a = None
                    /\ d.operational + d.withdrawn >= 5) =>
                       d.timeline_score = Some(500)

\* C10 witness: A qualifies, has Operational projects whose COD is not later
\* than the queue date or does not parse, no project that counts, a null
\* average and timeline_score 50.0; B has an average over its one project.
C10_Witness ==
    /\ pc = "done"
    /\ DOMAIN developers = {"A", "B"}
    /\ developers["A"].operational >= 2
    /\ \E k \in RecordsOf("A") :
        /\ queue_db[k].status_std = "Operational"
        /\ queue_db[k].cod_std \in DOMAIN DateValue
        /\ queue_db[k].queue_date_std \in DOMAIN DateValue
    /\ developers["A"].avg_timeline_days = None
    /\ developers["A"].score # None
    /\ developers["A"].timeline_score = Some(500)
    /\ developers["B"].avg_timeline_days = Some(Rat(600, 1))

\* C5 (as claimed): a second run on the unchanged source, whenever it is
\* made, writes the developer rows the first run wrote.
C5_RerunIdentical ==
    (pc = "done" /\ previous # None) => developers = previous[1]

\* C11 (as claimed): years_since_first is (CURRENT_DATE - earliest queue
\* date) in days / 365.25, the earliest being the least queue date that
\* parses among all the developer's projects whatever their status; the
\* tenure handed to scoring is 0 only if no queue date of the developer
\* parses, also when some of the others do not.
C11_QueueDays(n) ==
    {DateValue[queue_db[k].queue_date_std] :
        k \in {j \in RecordsOf(n) :
                  queue_db[j].queue_date_std \in DOMAIN DateValue}}

C11_Earliest(n) ==
    CHOOSE d \in C11_QueueDays(n) : \A e \in C11_QueueDays(n) : d <= e

C11_TenureFromEarliest ==
    Built =>
        \A n \in DOMAIN developers :
            LET d == developers[n]
                tenure == ScoringInputOf(d).years_since_first
            IN  IF C11_QueueDays(n) = {}
                THEN d.years_since_first = None /\ tenure.num = 0
                ELSE /\ d.years_since_first # None
                     /\ tenure = Rat((today - C11_Earliest(n)) * 100, 36525)
                     /\ tenure.num # 0

---------------------------------------------------------------------------
(* score_timeline called on its own, on two averages at a time *)

TimelineStep == 73
MaxTimelineSteps == 31

\* Averages in days: multiples of the step from below zero to beyond
\* TIMELINE_POOR, the days next to both thresholds, and half days.
TimelineDayValues ==
    {Rat(k * TimelineStep, 1) : k \in -1 .. MaxTimelineSteps}
    \cup {Rat(n, 1) : n \in {1, 364, 365, 366, 2189, 2190, 2191}}
    \cup {Rat(n, 2) : n \in {1, 729, 731, 2001, 4379, 4381}}

TimelineInputs == {None} \cup {Some(a) : a \in TimelineDayValues}

InitTimeline ==
    /\ IdleBatch
    /\ inp \in TimelineInputs \X TimelineInputs
    /\ result = None
    /\ called = FALSE

CallScoreTimeline ==
    /\ ~called
    /\ result' = <<score_timeline(inp[1]), score_timeline(inp[2])>>
    /\ called' = TRUE
    /\ UNCHANGED <<varsBatch, inp>>

NextTimeline == CallScoreTimeline

SpecTimeline == InitTimeline /\ [][NextTimeline]_vars

\* C12: score_timeline is exactly 100 for an average in (0, 365], exactly 0
\* from 2190 days on, exactly 50 when the average is undefined or not
\* positive, and strictly between the thresholds it is the interpolation
\* 100 * (1 - (days - 365) / 1825) (here: to the model's resolution, compared
\* in hundredths), strictly decreasing in the average.
C12_Between(a) == a.num > 365 * a.den /\ a.num < 2190 * a.den

C12_Less(a, b) == a.num * b.den < b.num * a.den

C12_Abs(x) == IF x < 0 THEN -x ELSE x

C12_Piece(avg, s) ==
    IF avg = None THEN s = 50 * SCALE
    ELSE LET a == avg[1]
             h == s \div (SCALE \div 100)
         IN  /\ a.num <= 0 => s = 50 * SCALE
             /\ (a.num > 0 /\ a.num <= 365 * a.den) => s = 100 * SCALE
             /\ a.num >= 2190 * a.den => s = 0
             /\ C12_Between(a) =>
                    /\ s > 0 /\ s < 100 * SCALE
                    /\ C12_Abs(h * 1825 * a.den
                               - 10000 * (2190 * a.den - a.num))
                       <= 1825 * a.den

C12_TimelinePiecewise ==
    called =>
        /\ C12_Piece(inp[1], result[1])
        /\ C12_Piece(inp[2], result[2])
        /\ (/\ inp[1] # None /\ inp[2] # None
            /\ C12_Between(inp[1][1]) /\ C12_Between(inp[2][1])
            /\ C12_Less(inp[1][1], inp[2][1]))
           => result[1] > result[2]

\* Two different averages strictly between the thresholds
\* have been scored.
C12_Witness ==
    /\ called
    /\ inp = <<Some(Rat(2001, 2)), Some(Rat(2189, 1))>>
    /\ result[1] > result[2]
    /\ result[2] > 0

---------------------------------------------------------------------------
(* score_completion_rate called on its own, on two pairs of counts *)

CompletionArgs == [operational : CountValues, withdrawn : CountValues]

InitCompletion ==
    /\ IdleBatch
    /\ inp \in CompletionArgs \X CompletionArgs
    /\ result = None
    /\ called = FALSE

CallScoreCompletionRate ==
    /\ ~called
    /\ result' = <<score_completion_rate(inp[1].operational,
                                         inp[1].withdrawn),
                   score_completion_rate(inp[2].operational,
                                         inp[2].withdrawn)>>
    /\ called' = TRUE
    /\ UNCHANGED <<varsBatch, inp>>

NextCompletion == CallScoreCompletionRate

SpecCompletion == InitCompletion /\ [][NextCompletion]_vars

\* C13: over non-negative counts the completion sub-score never decreases
\* when operational grows with withdrawn fixed, and never increases when
\* withdrawn grows with operational fixed.
C13_NonNegative(a) == a.operational >= 0 /\ a.withdrawn >= 0

C13_CompletionMonotone ==
    (called /\ C13_NonNegative(inp[1]) /\ C13_NonNegative(inp[2])) =>
        /\ (/\ inp[1].withdrawn = inp[2].withdrawn
            /\ inp[1].operational <= inp[2].operational)
           => result[1] <= result[2]
        /\ (/\ inp[1].operational = inp[2].operational
            /\ inp[1].withdrawn <= inp[2].withdrawn)
           => result[1] >= result[2]

\* The same operational count scored with fewer and with more withdrawn
\* projects, the score strictly dropping.
C13_Witness ==
    /\ called
    /\ inp[1] = [operational |-> 3, withdrawn |-> 1]
    /\ inp[2] = [operational |-> 3, withdrawn |-> 4]
    /\ result[1] = 75 * SCALE
    /\ result[1] > result[2]

---------------------------------------------------------------------------
(* What the scoring functions can raise *)

\* x / d raises ZeroDivisionError exactly when d is 0.
ZeroDivision(d) == IF d = 0 THEN {"ZeroDivisionError"} ELSE {}

\* math.log1p(x) raises ValueError exactly when x <= -1.
Log1pDomain(x) == IF x <= -1 THEN {"ValueError"} ELSE {}

raises_score_completion_rate(operational, withdrawn) ==
    LET resolved == operational + withdrawn
    IN  IF resolved = 0 THEN {} ELSE ZeroDivision(resolved)

raises_score_timeline(avg_days) ==
    IF avg_days = None \/ avg_days[1].num <= 0 THEN {}
    ELSE LET a == avg_days[1]
         IN  IF a.num <= TIMELINE_EXCELLENT * a.den THEN {}
             ELSE IF a.num >= TIMELINE_POOR * a.den THEN {}
             ELSE ZeroDivision(TIMELINE_POOR - TIMELINE_EXCELLENT)

\* Faulty variant: the total_projects <= 0 guard is missing.
raises_score_volume_unguarded(total) ==
    Log1pDomain(total) \cup Log1pDomain(VOLUME_CAP)
    \cup ZeroDivision(log1p[VOLUME_CAP])

raises_score_volume(total) ==
    IF total <= 0 THEN {}
    ELSE Log1pDomain(total) \cup Log1pDomain(VOLUME_CAP)
         \cup ZeroDivision(log1p[VOLUME_CAP])

raises_score_breadth(num_regions) == ZeroDivision(REGIONS_MAX)

raises_score_diversity(num_types) == ZeroDivision(FUEL_TYPES_MAX)

raises_score_pipeline(active) ==
    IF active <= 0 THEN {}
    ELSE Log1pDomain(active) \cup Log1pDomain(PIPELINE_CAP)
         \cup ZeroDivision(log1p[PIPELINE_CAP])

raises_score_depth(years) ==
    IF years.num <= 0 THEN {} ELSE ZeroDivision(DEPTH_MAX)

raises_compute_score(i) ==
    LET resolved == i.operational + i.withdrawn
    IN  IF resolved < MIN_RESOLVED THEN {}
        ELSE raises_score_completion_rate(i.operational, i.withdrawn)
             \cup raises_score_timeline(i.avg_timeline_days)
             \cup raises_score_volume(i.total_projects)
             \cup raises_score_breadth(i.num_regions)
             \cup raises_score_diversity(i.num_fuel_types)
             \cup raises_score_pipeline(i.active_projects)
             \cup raises_score_depth(i.years_since_first)
             \cup (IF resolved # 0 THEN ZeroDivision(resolved) ELSE {})

\* Degenerate arguments next to ordinary ones.
DegenerateInputs ==
    [operational : CountValues, withdrawn : CountValues,
     total_projects : {-1, 0, 8},
     avg_timeline_days : {None, Some(Rat(-5, 1)), Some(Rat(0, 1)),
                          Some(Rat(600, 1))},
     num_regions : {-1, 0, 3},
     num_fuel_types : {-1, 2},
     active_projects : {-1, 0, 2},
     years_since_first : {Rat(-1, 1), Rat(0, 1), Rat(2, 1)}]

InitRaise ==
    /\ IdleBatch
    /\ inp \in DegenerateInputs
    /\ result = None
    /\ called = FALSE

\* compute_score and each score_* function are called on the input; the
\* result keeps what each returned and what was raised.
CallScoringFunctions ==
    /\ ~called
    /\ result' =
          [raised |->
              raises_compute_score(inp)
              \cup raises_score_completion_rate(inp.operational,
                                                inp.withdrawn)
              \cup raises_score_timeline(inp.avg_timeline_days)
              \cup raises_score_volume(inp.total_projects)
              \cup raises_score_breadth(inp.num_regions)
              \cup raises_score_diversity(inp.num_fuel_types)
              \cup raises_score_pipeline(inp.active_projects)
              \cup raises_score_depth(inp.years_since_first),
           compute_score |-> compute_score(inp),
           completion |-> score_completion_rate(inp.operational,
                                                inp.withdrawn),
           timeline |-> score_timeline(inp.avg_timeline_days),
           volume |-> score_volume(inp.total_projects),
           pipeline |-> score_pipeline(inp.active_projects),
           depth |-> score_depth(inp.years_since_first)]
    /\ called' = TRUE
    /\ UNCHANGED <<varsBatch, inp>>

NextRaise == CallScoringFunctions

SpecRaise == InitRaise /\ [][NextRaise]_vars

---------------------------------------------------------------------------
(* src/app/database.py and src/app/routers/developers.py: the read API   *)
(* over the developers table the batch wrote.  A row keeps the columns    *)
(* the queries filter, order and count by; scores are in tenths and       *)
(* completion rates in 1/10000, as the batch stores them.                 *)

MaxDevelopers == 3
MaxPerPage == 2

DeveloperNames == <<"A", "B", "C", "D", "E", "F">>

NameIndex(n) ==
    CHOOSE k \in 1 .. Len(DeveloperNames) : DeveloperNames[k] = n

\* Rows as the batch leaves them: an unscored developer (fewer than five
\* resolved projects) and scored ones.
RowProfiles ==
    {[score |-> None, total_projects |-> 3, operational |-> 1,
      completion_rate |-> Some(5000), regions |-> {"PJM"}],
     [score |-> Some(195), total_projects |-> 7, operational |-> 2,
      completion_rate |-> Some(4000), regions |-> {"CAISO"}],
     [score |-> Some(425), total_projects |-> 7, operational |-> 3,
      completion_rate |-> Some(6000), regions |-> {"PJM"}],
     [score |-> Some(800), total_projects |-> 9, operational |-> 5,
      completion_rate |-> Some(10000), regions |-> {"CAISO", "PJM"}]}

ApiRow(n, p) ==
    [name |-> n, score |-> p.score, total_projects |-> p.total_projects,
     operational |-> p.operational, completion_rate |-> p.completion_rate,
     regions |-> p.regions]

ApiTables(profiles) ==
    LET names == {DeveloperNames[k] : k \in 1 .. MaxDevelopers}
    IN  {[n \in names |-> ApiRow(n, f[n])] : f \in [names -> profiles]}

\* ORDER BY: whether row a has to come before row b.
DescNullsLast(x, y) == x # None /\ (y = None \/ x[1] > y[1])

Before(a, b, order) ==
    CASE order = "score" -> DescNullsLast(a.score, b.score)
      [] order = "completion_rate" ->
            DescNullsLast(a.completion_rate, b.completion_rate)
      [] order = "name" -> NameIndex(a.name) < NameIndex(b.name)
      [] order = "total_projects" -> a.total_projects > b.total_projects
      [] order = "operational" -> a.operational > b.operational

\* Faulty variant: rows in any sequence, the ORDER BY dropped.
AnyOrderings(table, S, order) ==
    {o \in [1 .. Cardinality(S) -> S] :
        \A i, j \in 1 .. Cardinality(S) : i # j => o[i] # o[j]}

\* Every sequence of the rows named in S an ORDER BY may return: rows with
\* equal keys come in an order SQL leaves open, anew in each query.
Orderings(table, S, order) ==
    {o \in [1 .. Cardinality(S) -> S] :
        /\ \A i, j \in 1 .. Cardinality(S) : i # j => o[i] # o[j]
        /\ \A i, j \in 1 .. Cardinality(S) :
              i < j => ~Before(table[o[j]], table[o[i]], order)}

\* LIMIT limit OFFSET offset
LimitOffset(o, limit, offset) ==
    SubSeq(o, offset + 1, Min(offset + limit, Len(o)))

SortMapListing ==
    {"score", "name", "total_projects", "operational", "completion_rate"}

SortMapRankings ==
    {"score", "completion_rate", "total_projects", "operational"}

\* The (results, total) pairs query_developers may return.
query_developers(table, region, min_projects, sort_by, page, per_page) ==
    LET matching ==
            {n \in DOMAIN table :
                /\ table[n].total_projects >= min_projects
                /\ region # None => region[1] \in table[n].regions}
        order == IF sort_by \in SortMapListing THEN sort_by ELSE "score"
        total == Cardinality(matching)
        offset == (page - 1) * per_page
        item(n) == [name |-> n, score |-> table[n].score,
                    total_projects |-> table[n].total_projects,
                    operational |-> table[n].operational,
                    regions |-> table[n].regions]
    IN  {[results |-> [i \in DOMAIN pg |-> item(pg[i])], total |-> total] :
            pg \in {LimitOffset(o, per_page, offset) :
                       o \in Orderings(table, matching, order)}}

\* Faulty variant: rank counted within the page, the offset left out.
RankInPage(offset, i) == i

\* enumerate(rows) counts from 0; i is the 1-based position in the page.
Rank(offset, i) == offset + (i - 1) + 1

\* The (results, total) pairs get_rankings may return.
get_rankings(table, sort_by, page, per_page) ==
    LET scored_names == {n \in DOMAIN table : table[n].score # None}
        total == Cardinality(scored_names)
        order == IF sort_by \in SortMapRankings THEN sort_by ELSE "score"
        offset == (page - 1) * per_page
        item(n, i) ==
            [rank |-> Rank(offset, i), name |-> n, score |-> table[n].score,
             total_projects |-> table[n].total_projects,
             operational |-> table[n].operational,
             completion_rate |->
                 IF table[n].completion_rate = None THEN 0
                 ELSE table[n].completion_rate[1]]
    IN  {[results |-> [i \in DOMAIN pg |-> item(pg[i], i)],
          total |-> total] :
            pg \in {LimitOffset(o, per_page, offset) :
                       o \in Orderings(table, scored_names, order)}}

make_meta(total, page, per_page) ==
    [total |-> total, page |-> page, per_page |-> per_page,
     pages |-> IF per_page # 0
               THEN (total + per_page - 1) \div per_page ELSE 0]

\* Query(..., ge=1) and Query(..., ge=1, le=100) answer 422 themselves.
Unprocessable == [status |-> 422]

\* The responses GET /developers may give.
list_developers(table, req, page) ==
    IF req.min_projects < 1 \/ page < 1
       \/ req.per_page < 1 \/ req.per_page > 100
    THEN {Unprocessable}
    ELSE {[status |-> 200, data |-> r.results,
           meta |-> make_meta(r.total, page, req.per_page)] :
             r \in query_developers(table, req.region, req.min_projects,
                                    req.sort_by, page, req.per_page)}

\* The responses GET /developers/rankings may give.
rankings(table, req, page) ==
    IF page < 1 \/ req.per_page < 1 \/ req.per_page > 100
    THEN {Unprocessable}
    ELSE {[status |-> 200, data |-> r.results,
           meta |-> make_meta(r.total, page, req.per_page)] :
             r \in get_rankings(table, req.sort_by, page, req.per_page)}

\* sort_by values a client may send: the keys of both sort maps and one
\* that neither has.
SortByValues == SortMapListing \cup {"capacity"}

ListingRequests ==
    [endpoint : {"developers"}, region : {None, Some("PJM")},
     min_projects : {1, 7}, sort_by : SortByValues,
     per_page : 0 .. MaxPerPage]

RankingsRequests ==
    [endpoint : {"rankings"}, region : {None}, min_projects : {1},
     sort_by : SortByValues, per_page : 0 .. MaxPerPage]

\* The database the API opens read-only: the batch has finished.
ApiDatabase(profiles) ==
    /\ queue_db = <<>>
    /\ projects = {}
    /\ developers \in ApiTables(profiles)
    /\ rows = EmptyTable
    /\ scored = 0
    /\ pc = "done"
    /\ today = FirstDay
    /\ previous = None
    /\ runs = 1

\* A client pages through one endpoint with one set of parameters: inp is
\* the request, result the responses to pages 1, 2, ... so far.
InitListing ==
    /\ ApiDatabase(RowProfiles)
    /\ inp \in ListingRequests
    /\ result = <<>>
    /\ called = FALSE

InitRankings ==
    /\ ApiDatabase(RowProfiles)
    /\ inp \in RankingsRequests
    /\ result = <<>>
    /\ called = FALSE

\* The client stops one page after the last, or at an error.
MorePages ==
    IF result = <<>> THEN TRUE
    ELSE /\ result[Len(result)].status = 200
         /\ Len(result) <= result[Len(result)].meta.pages

GetDevelopers ==
    /\ inp.endpoint = "developers"
    /\ MorePages
    /\ \E r \in list_developers(developers, inp, Len(result) + 1) :
          result' = Append(result, r)
    /\ called' = TRUE
    /\ UNCHANGED <<varsBatch, inp>>

GetRankings ==
    /\ inp.endpoint = "rankings"
    /\ MorePages
    /\ \E r \in rankings(developers, inp, Len(result) + 1) :
          result' = Append(result, r)
    /\ called' = TRUE
    /\ UNCHANGED <<varsBatch, inp>>

NextListing == GetDevelopers

SpecListing == InitListing /\ [][NextListing]_vars

NextRankings == GetRankings

SpecRankings == InitRankings /\ [][NextRankings]_vars

\* C15: in the listing sorted by score, over the pages taken in order, no
\* unscored developer comes before a scored one and the scored ones come in
\* non-increasing score order; the total of every page is the number of
\* developers matching the filters, whatever page, per_page and sort_by.
C15_Matching ==
    {n \in DOMAIN developers :
        /\ developers[n].total_projects >= inp.min_projects
        /\ inp.region # None => inp.region[1] \in developers[n].regions}

C15_Earlier(p, i, q, j) == p < q \/ (p = q /\ i < j)

C15_ScoreOrderAndTotal ==
    \A p \in DOMAIN result :
        result[p].status = 200 =>
            /\ result[p].meta.total = Cardinality(C15_Matching)
            /\ inp.sort_by = "score" =>
                  \A q \in DOMAIN result :
                      \A i \in DOMAIN result[p].data :
                          \A j \in DOMAIN result[q].data :
                              C15_Earlier(p, i, q, j) =>
                                  LET x == result[p].data[i].score
                                      y == result[q].data[j].score
                                  IN  \/ y = None
                                      \/ (x # None /\ x[1] >= y[1])

\* Paged by score, one row a page, with a developer filtered out: a scored
\* developer, then an unscored one, then the empty page after the last.
C15_Witness ==
    /\ inp.sort_by = "score" /\ inp.per_page = 1 /\ inp.region # None
    /\ Len(result) = 3
    /\ result[1].data # <<>> /\ result[1].data[1].score = Some(425)
    /\ result[2].data # <<>> /\ result[2].data[1].score = None
    /\ result[3].data = <<>>
    /\ result[3].meta.total = 2
    /\ Cardinality(DOMAIN developers) > 2

---------------------------------------------------------------------------
(* get_stats: the score distribution of GET /stats *)

\* Faulty variant: the band floors compared with > instead of >=.
BucketAboveFloor(score) ==
    IF score > 800 THEN "excellent_80_100"
    ELSE IF score > 600 THEN "good_60_79"
    ELSE IF score > 400 THEN "average_40_59"
    ELSE IF score > 200 THEN "below_avg_20_39"
    ELSE "poor_0_19"

\* The CASE expression of the distribution query, on a score in tenths.
Bucket(score) ==
    IF score >= 800 THEN "excellent_80_100"
    ELSE IF score >= 600 THEN "good_60_79"
    ELSE IF score >= 400 THEN "average_40_59"
    ELSE IF score >= 200 THEN "below_avg_20_39"
    ELSE "poor_0_19"

\* The counts get_stats reports; GROUP BY returns a bucket only if it has a
\* developer.  (Averages, medians and the projects table are left out.)
get_stats(table) ==
    LET scored_names == {n \in DOMAIN table : table[n].score # None}
        buckets == {Bucket(table[n].score[1]) : n \in scored_names}
    IN  [total_developers |-> Cardinality(DOMAIN table),
         scored_developers |-> Cardinality(scored_names),
         score_distribution |->
             [b \in buckets |->
                 Cardinality({n \in scored_names :
                                 Bucket(table[n].score[1]) = b})]]

\* Rows with scores at and next to every band edge.
StatsProfiles ==
    {[score |-> None, total_projects |-> 3, operational |-> 1,
      completion_rate |-> Some(5000), regions |-> {"PJM"}]}
    \cup {[score |-> Some(t), total_projects |-> 7, operational |-> 3,
           completion_rate |-> Some(6000), regions |-> {"PJM"}] :
             t \in {0, 195, 199, 200, 399, 400, 599, 600, 799, 800, 1000}}

InitStats ==
    /\ ApiDatabase(StatsProfiles)
    /\ inp = [endpoint |-> "stats"]
    /\ result = <<>>
    /\ called = FALSE

GetStats ==
    /\ inp.endpoint = "stats"
    /\ ~called
    /\ result' = <<get_stats(developers)>>
    /\ called' = TRUE
    /\ UNCHANGED <<varsBatch, inp>>

NextStats == GetStats

SpecStats == InitStats /\ [][NextStats]_vars

\* C16: each developer with a score is counted in exactly one of the five
\* bands, the one whose range holds its score (0-19 is 0 <= score < 20, and
\* so on up to 80-100, which is 80 <= score <= 100); a developer without a
\* score is counted in none; the band counts sum to scored_developers.
C16_Bands ==
    <<[label |-> "poor_0_19", lo |-> 0, below |-> 200],
      [label |-> "below_avg_20_39", lo |-> 200, below |-> 400],
      [label |-> "average_40_59", lo |-> 400, below |-> 600],
      [label |-> "good_60_79", lo |-> 600, below |-> 800],
      [label |-> "excellent_80_100", lo |-> 800, below |-> 1001]>>

C16_Count(dist, label) == IF label \in DOMAIN dist THEN dist[label] ELSE 0

C16_InBand(k) ==
    {n \in DOMAIN developers :
        /\ developers[n].score # None
        /\ developers[n].score[1] >= C16_Bands[k].lo
        /\ developers[n].score[1] < C16_Bands[k].below}

C16_BandCounts ==
    called =>
        LET dist == result[1].score_distribution
            scored_names ==
                {n \in DOMAIN developers : developers[n].score # None}
        IN  /\ DOMAIN dist \subseteq {C16_Bands[k].label : k \in 1 .. 5}
            /\ \A k \in 1 .. 5 :
                  C16_Count(dist, C16_Bands[k].label)
                  = Cardinality(C16_InBand(k))
            /\ \A n \in scored_names :
                  Cardinality({k \in 1 .. 5 : n \in C16_InBand(k)}) = 1
            /\ C16_Count(dist, C16_Bands[1].label)
               + C16_Count(dist, C16_Bands[2].label)
               + C16_Count(dist, C16_Bands[3].label)
               + C16_Count(dist, C16_Bands[4].label)
               + C16_Count(dist, C16_Bands[5].label)
               = result[1].scored_developers
            /\ result[1].scored_developers = Cardinality(scored_names)

\* Developers scored 19.9 and 80.0 and an unscored one have been counted:
\* one each in the lowest and the highest band, two scored in all.
C16_Witness ==
    /\ called
    /\ \E a, b, c \in DOMAIN developers :
          /\ developers[a].score = Some(199)
          /\ developers[b].score = Some(800)
          /\ developers[c].score = None
    /\ result[1].score_distribution
       = [b \in {"poor_0_19", "excellent_80_100"} |-> 1]
    /\ result[1].scored_developers = 2

---------------------------------------------------------------------------
(* Both paged endpoints *)

InitApi == InitListing \/ InitRankings

NextApi == GetDevelopers \/ GetRankings

SpecApi == InitApi /\ [][NextApi]_vars

\* C17 (as claimed): a request to the listing or to the rankings whose
\* sort_by is not a key the endpoint supports is answered with an error,
\* never with a result list.
C17_Supported ==
    IF inp.endpoint = "developers" THEN SortMapListing ELSE SortMapRankings

C17_UnsupportedSortRejected ==
    inp.sort_by \notin C17_Supported =>
        \A p \in DOMAIN result :
            /\ result[p].status >= 400
            /\ "data" \notin DOMAIN result[p]

---------------------------------------------------------------------------
\* C18: the rankings are made of exactly the developers with a score (every
\* entry is one of them, and a page that holds the whole total holds each of
\* them once); the entry at 0-based position i of page p with page size s
\* has rank (p - 1) * s + i + 1, so over pages 1 .. ceil(total / s) the ranks
\* are 1 .. total, each once; a page beyond the last has no entries and the
\* same total.
C18_Scored == {n \in DOMAIN developers : developers[n].score # None}

C18_LastPage ==
    (Cardinality(C18_Scored) + inp.per_page - 1) \div inp.per_page

C18_Entries(pages) ==
    {<<p, i>> \in pages \X (1 .. inp.per_page) : i \in DOMAIN result[p].data}

=============================================================================
